---- MODULE Spec2Model ----
(***************************************************************************)
(* Model of src/xrp.js: deriveRippleAddress (the derivation engine) and    *)
(* deriveAddressesFromFile (the batch runner), together with the Node      *)
(* streams the runner drives: the input read streams, the readline         *)
(* interfaces rl and rl2, and the output writeStream.                      *)
(*                                                                         *)
(* Text is modelled as a sequence of tokens (a word, or the blank SP).     *)
(* The three library capabilities (bip39, ripple-bip32, ripple-keypairs)   *)
(* are symbolic: a seed records the mnemonic and passphrase it was         *)
(* expanded from, a key records the seed and path it was derived at, an    *)
(* address records the key it encodes.                                     *)
(***************************************************************************)
EXTENDS Integers, Sequences, FiniteSets, TLC

VARIABLES
    input,          \* the lines of the input file (mnemonics.txt)
    argsOk,         \* the two path arguments are usable by fs.create*Stream
    outFile,        \* the records held by the output file (XRP.txt)
    prevOut,        \* content of outFile when the previous run ended
    run,            \* number of the current run of deriveAddressesFromFile
    pc,             \* where the run is
    fatal,          \* why the process died, "none" while it has not
    topCatch,       \* times the catch of lines 89-91 ran in this run
    settled,        \* the promise returned by deriveAddressesFromFile settled
    sink,           \* writeStream: "none", "opening", "open", "broken"
    endCalls,       \* writeStream.end() calls in this run
    totalLines,     \* let totalLines   (line 43)
    processedLines, \* let processedLines (line 44)
    cnt,            \* lines rl has emitted (counting pass)
    cursor,         \* lines rl2 has handed to the for-await loop
    mnemonic,       \* const mnemonic of the iteration in flight (line 57)
    deriving,       \* deriveRippleAddress calls in progress
    calls,          \* library calls made by the latest deriveRippleAddress
    pending,        \* writes issued on writeStream whose callback has not fired
    issued,         \* every write issued on writeStream in this run
    diag,           \* console.error output of this run
    stdout,         \* process.stdout / console.log output of this run
    derived         \* every outcome deriveRippleAddress has produced

vars == << input, argsOk, outFile, prevOut, run, pc, fatal, topCatch, settled,
           sink, endCalls, totalLines, processedLines, cnt, cursor, mnemonic,
           deriving, calls, pending, issued, diag, stdout, derived >>

(***************************************************************************)
(* Bounds of the model.                                                    *)
(***************************************************************************)
MaxLines == 3
MaxRuns == 2
MaxLongLines == 50

(***************************************************************************)
(* Text.                                                                   *)
(***************************************************************************)
SP == " "

\* Words of the standard word list; every other word is unknown to it.
WordList == {"abandon", "about"}

\* The input lines the model draws from: blank, whitespace only, valid
\* mnemonics bare and padded, a mnemonic that fails validation, and valid
\* mnemonics whose key derivation fails.
LineSet ==
    { <<>>,
      <<SP>>,
      <<"abandon">>,
      <<SP, "abandon", SP>>,
      <<"about">>,
      <<"abandon", SP, "about">>,
      <<"not", SP, "a", SP, "mnemonic">> }

Inputs == UNION { [1..n -> LineSet] : n \in 0..MaxLines }

RECURSIVE TrimStart(_)
TrimStart(s) == IF s # <<>> /\ s[1] = SP THEN TrimStart(Tail(s)) ELSE s

RECURSIVE TrimEnd(_)
TrimEnd(s) ==
    IF s # <<>> /\ s[Len(s)] = SP THEN TrimEnd(SubSeq(s, 1, Len(s) - 1)) ELSE s

\* The line as it would be were it not trimmed.
NoTrim(line) == line

\* trim as it would be were only leading blanks removed.
TrimStartOnly(line) == TrimStart(line)

\* String.prototype.trim
trim(line) == TrimEnd(TrimStart(line))

(***************************************************************************)
(* The derivation engine: deriveRippleAddress, lines 13-23.                *)
(***************************************************************************)
\* bip39.validateMnemonic (line 14): words of the word list separated by
\* single blanks.
validateMnemonic(m) ==
    /\ Len(m) % 2 = 1
    /\ \A i \in 1..Len(m) :
          IF i % 2 = 1 THEN m[i] \in WordList ELSE m[i] = SP

\* bip39.mnemonicToSeed is called with the mnemonic only (line 18): the
\* passphrase takes its default, the empty string.
DefaultPassphrase == <<>>

mnemonicToSeed(m) == [mnemonic |-> m, passphrase |-> DefaultPassphrase]

NoSeed == [mnemonic |-> <<>>, passphrase |-> <<>>]

\* The path as it would be with another coin type.
OtherCoinPath ==
    << [index |-> 44, hardened |-> TRUE],
       [index |-> 0, hardened |-> TRUE],
       [index |-> 0, hardened |-> TRUE],
       [index |-> 0, hardened |-> FALSE],
       [index |-> 0, hardened |-> FALSE] >>

\* The path as it would be were the address index taken from the progress
\* counter.
PathByProgress ==
    << [index |-> 44, hardened |-> TRUE],
       [index |-> 144, hardened |-> TRUE],
       [index |-> 0, hardened |-> TRUE],
       [index |-> 0, hardened |-> FALSE],
       [index |-> processedLines, hardened |-> FALSE] >>

\* "m/44'/144'/0'/0/0" (line 19)
DerivationPath ==
    << [index |-> 44, hardened |-> TRUE],
       [index |-> 144, hardened |-> TRUE],
       [index |-> 0, hardened |-> TRUE],
       [index |-> 0, hardened |-> FALSE],
       [index |-> 0, hardened |-> FALSE] >>

\* The seeds for which bip32.fromSeedBuffer(..).derivePath(..) throws (line
\* 19): a fixed property of the seed.
derivePathThrows(seed) == seed.mnemonic[1] = "about"

\* .keyPair.getKeyPairs() of the node derived from seed at path (line 19)
getKeyPairs(seed, path) ==
    [ publicKey  |-> [kind |-> "public", seed |-> seed, path |-> path],
      privateKey |-> [kind |-> "private", seed |-> seed, path |-> path] ]

\* The key as it would be were the private half handed on.
PrivateAddressKey(keyPair) == keyPair.privateKey

\* The key handed to ripple.deriveAddress (line 20)
AddressKey(keyPair) == keyPair.publicKey

\* ripple.deriveAddress (line 20)
deriveAddress(key) == [encodes |-> key]

NoAddress == [encodes |-> [kind |-> "none", seed |-> NoSeed, path |-> <<>>]]

Call(fn, seed, path, key) == [fn |-> fn, seed |-> seed, path |-> path, key |-> key]

\* Lines 14-16: the library calls made up to the first suspension, and
\* whether the call has thrown by then.
ValidationCalls(m) == << Call("validateMnemonic", NoSeed, <<>>, "") >>

\* The check of line 14 as it would be without its throw.
ValidationNeverThrows(m) == FALSE

ValidationThrows(m) == ~validateMnemonic(m)

\* Lines 18-22: the rest of the call once mnemonicToSeed has resolved.
DerivationCalls(m) ==
    LET seed == mnemonicToSeed(m)
        key  == AddressKey(getKeyPairs(seed, DerivationPath))
    IN  << Call("mnemonicToSeed", seed, <<>>, ""),
           Call("fromSeedBuffer", seed, <<>>, ""),
           Call("derivePath", seed, DerivationPath, "") >>
        \o (IF derivePathThrows(seed)
            THEN <<>>
            ELSE << Call("deriveAddress", key.seed, key.path, key.kind) >>)

DerivationThrows(m) == derivePathThrows(mnemonicToSeed(m))

\* return address (line 22)
DerivedAddress(m) ==
    deriveAddress(AddressKey(getKeyPairs(mnemonicToSeed(m), DerivationPath)))

\* One entry of the history of outcomes of deriveRippleAddress.
Outcome(m, kind, addr, position) ==
    [ mnemonic |-> m, kind |-> kind, address |-> addr,
      run |-> run, position |-> position, processed |-> processedLines ]

(***************************************************************************)
(* The batch runner: deriveAddressesFromFile, lines 33-92.                 *)
(***************************************************************************)
ErrorMarker == "Error deriving address"

\* `${mnemonic}|${address}\n` (line 63)
SuccessRecord(m, addr) ==
    [mnemonic |-> m, sep |-> "|", marker |-> "", address |-> addr, eol |-> "\n"]

\* `${mnemonic}|Error deriving address\n` (line 71)
ErrorRecord(m) ==
    [mnemonic |-> m, sep |-> "|", marker |-> ErrorMarker, address |-> NoAddress,
     eol |-> "\n"]

\* What the output file may hold before the first run.
StaleRecord == SuccessRecord(<<"stale">>, NoAddress)

(***************************************************************************)
(* Line 82: Math.floor((processedLines / totalLines) * 100).  JavaScript   *)
(* numbers are IEEE 754 doubles: the quotient is rounded to 53 significant *)
(* bits (to nearest, ties to even), so is its product with 100, and the    *)
(* floor is taken of that.  A 53-bit significand is kept in three limbs,   *)
(* hi * 2^48 + mid * 2^24 + lo, with the value significand * 2^-exp.       *)
(* Exact for 0 < n <= d < 128.                                             *)
(***************************************************************************)
Limb == 2^24

\* The zero bits between the binary point and the first one bit of n / d.
LeadingZeroBits(n, d) ==
    CHOOSE z \in 0..7 : n * 2^z < d /\ n * 2^(z + 1) >= d

\* processedLines / totalLines: 54 bits of the quotient by long division (24,
\* 24 and 6 at a time), the last of them the rounding bit.
DoubleDiv(n, d) ==
    IF n = d
    THEN [hi |-> 16, mid |-> 0, lo |-> 0, exp |-> 52]
    ELSE LET z  == LeadingZeroBits(n, d)
             r0 == n * 2^z
             c1 == (r0 * Limb) \div d
             r1 == (r0 * Limb) % d
             c2 == (r1 * Limb) \div d
             r2 == (r1 * Limb) % d
             c3 == (r2 * 64) \div d
             r3 == (r2 * 64) % d
             up == IF c3 % 2 = 1 /\ (r3 # 0 \/ (c3 \div 2) % 2 = 1)
                   THEN 1 ELSE 0
             m0 == (c2 % 2^19) * 32 + c3 \div 2 + up
             m1 == (c1 % 2^19) * 32 + c2 \div 2^19 + m0 \div Limb
             m2 == c1 \div 2^19 + m1 \div Limb
         IN  [hi |-> m2, mid |-> m1 % Limb, lo |-> m0 % Limb, exp |-> z + 53]

\* Math.floor(q * 100): the exact product p2 * 2^48 + p1 * 2^24 + p0 has 59
\* or 60 bits and is rounded to 53; the floor is its integer part, one more
\* when the rounding carries into it.
DoubleTimes100Floor(q) ==
    LET x0 == q.lo * 100
        p0 == x0 % Limb
        x1 == q.mid * 100 + x0 \div Limb
        p1 == x1 % Limb
        p2 == q.hi * 100 + x1 \div Limb
        s  == IF p2 >= 2^11 THEN 7 ELSE 6
        up == /\ (p0 \div 2^(s - 1)) % 2 = 1
              /\ (p0 % 2^(s - 1) # 0 \/ (p0 \div 2^s) % 2 = 1)
        j  == q.exp - 48
        carry == /\ up
                 /\ p2 % 2^j = 2^j - 1
                 /\ p1 = Limb - 1
                 /\ p0 \div 2^s = 2^(24 - s) - 1
    IN  p2 \div 2^j + (IF carry THEN 1 ELSE 0)

Percent(p, t) == IF p = 0 THEN 0 ELSE DoubleTimes100Floor(DoubleDiv(p, t))

\* The content as it would be with flags 'a'.
AppendedContent(old) == old

\* fs.createWriteStream(outputFilePath, { flags: 'w' }) (line 41): the
\* content of the file once the stream has opened it.
OpenedContent(old) == <<>>

\* writeStream.write(record, callback) (lines 63, 71), the writes in
\* `outstanding` being still without their callback.
IssueWrite(rec, outstanding) ==
    /\ pending' = Append(outstanding, rec)
    /\ issued' = Append(issued, rec)

\* The write as it would be were it not awaited.
NoAwait(at) == pc' = "loop"

\* await new Promise(...) (lines 62 and 70): the loop is suspended until the
\* callback of the write fires.
AwaitWrite(at) == pc' = at

\* Lines 79-83: the end of one iteration of the for-await loop.
EndIteration ==
    /\ processedLines' = processedLines + 1
    /\ stdout' = Append(stdout,
                   [ kind |-> "progress",
                     percent |-> Percent(processedLines + 1, totalLines),
                     processed |-> processedLines + 1,
                     total |-> totalLines ])
    /\ pc' = "loop"

\* Nothing catches the failure: an 'error' event without a listener or a
\* rejection of the promise of the async 'close' handler ends the process.
Crash(why) ==
    /\ pc' = "crashed"
    /\ fatal' = why

\* The per-line try as it would be without its catch block: the failure
\* leaves the loop.
CatchRethrows(m, err, outstanding) ==
    /\ diag' = diag
    /\ pending' = outstanding
    /\ issued' = issued
    /\ pc' = "crashed"

\* Lines 68-75: the catch block of the per-line try.
CatchBlock(m, err, outstanding) ==
    /\ diag' = Append(diag, [ msg |-> "Error deriving address for mnemonic: ",
                              mnemonic |-> m, err |-> err ])
    /\ IssueWrite(ErrorRecord(m), outstanding)
    /\ AwaitWrite("writeErr")

Init ==
    /\ input \in Inputs
    /\ argsOk \in BOOLEAN
    /\ outFile \in { <<>>, << StaleRecord >> }
    /\ prevOut = <<>>
    /\ run = 1
    /\ pc = "start"
    /\ fatal = "none"
    /\ topCatch = 0
    /\ settled = FALSE
    /\ sink = "none"
    /\ endCalls = 0
    /\ totalLines = 0
    /\ processedLines = 0
    /\ cnt = 0
    /\ cursor = 0
    /\ mnemonic = <<>>
    /\ deriving = 0
    /\ calls = <<>>
    /\ pending = <<>>
    /\ issued = <<>>
    /\ diag = <<>>
    /\ stdout = <<>>
    /\ derived = {}

\* Lines 33-49 and 89-92: the synchronous body of deriveAddressesFromFile.
\* The streams are created and the two listeners registered; a synchronous
\* throw (a path argument fs rejects) is the only failure the catch of line
\* 89 can see.  The function then returns and its promise resolves.
Setup ==
    /\ pc = "start"
    /\ settled' = TRUE
    /\ IF argsOk
       THEN /\ sink' = "opening"
            /\ pc' = "counting"
            /\ UNCHANGED << topCatch, diag >>
       ELSE /\ topCatch' = topCatch + 1
            /\ diag' = Append(diag, [ msg |-> "Error processing mnemonics:",
                                      mnemonic |-> <<>>,
                                      err |-> "ERR_INVALID_ARG_TYPE" ])
            /\ pc' = "returned"
            /\ UNCHANGED sink
    /\ UNCHANGED << input, argsOk, outFile, prevOut, run, fatal, endCalls,
                    totalLines, processedLines, cnt, cursor, mnemonic,
                    deriving, calls, pending, issued, stdout, derived >>

\* Line 41: the write stream opens the file, which truncates it.
SinkOpened ==
    /\ sink = "opening"
    /\ pc # "crashed"
    /\ sink' = "open"
    /\ outFile' = OpenedContent(outFile)
    /\ UNCHANGED << input, argsOk, prevOut, run, pc, fatal, topCatch, settled,
                    endCalls, totalLines, processedLines, cnt, cursor,
                    mnemonic, deriving, calls, pending, issued, diag, stdout,
                    derived >>

\* Line 41: the open fails; writeStream emits 'error', which has no listener.
SinkOpenFails ==
    /\ sink = "opening"
    /\ pc # "crashed"
    /\ sink' = "broken"
    /\ Crash("sinkOpen")
    /\ UNCHANGED << input, argsOk, outFile, prevOut, run, topCatch, settled,
                    endCalls, totalLines, processedLines, cnt, cursor,
                    mnemonic, deriving, calls, pending, issued, diag, stdout,
                    derived >>

\* Line 47: rl.on('line', (line) => totalLines++)
CountLine ==
    /\ pc = "counting"
    /\ cnt < Len(input)
    /\ cnt' = cnt + 1
    /\ totalLines' = totalLines + 1
    /\ UNCHANGED << input, argsOk, outFile, prevOut, run, pc, fatal, topCatch,
                    settled, sink, endCalls, processedLines, cursor, mnemonic,
                    deriving, calls, pending, issued, diag, stdout, derived >>

\* Lines 35-39: the input cannot be read during the counting pass; the
\* 'error' event has no listener.
CountInputFails ==
    /\ pc = "counting"
    /\ Crash("inputCount")
    /\ UNCHANGED << input, argsOk, outFile, prevOut, run, topCatch, settled,
                    sink, endCalls, totalLines, processedLines, cnt, cursor,
                    mnemonic, deriving, calls, pending, issued, diag, stdout,
                    derived >>

\* The handler as it would be were it run without waiting for 'close'.
InputOpened == TRUE

\* rl emits 'close' (line 49) once it has read the input to its end.
InputConsumed == cnt = Len(input)

\* Lines 49-56: rl closes at the end of the input; the handler creates rl2
\* and enters the for-await loop.
CountClose ==
    /\ pc = "counting"
    /\ InputConsumed
    /\ pc' = "loop"
    /\ cursor' = 0
    /\ UNCHANGED << input, argsOk, outFile, prevOut, run, fatal, topCatch,
                    settled, sink, endCalls, totalLines, processedLines, cnt,
                    mnemonic, deriving, calls, pending, issued, diag, stdout,
                    derived >>

\* Lines 56-60, 14-18, 68-83: rl2 hands the next line to the loop, which
\* runs to its next suspension: a blank line ends the iteration at once, a
\* mnemonic that fails validation reaches the write of line 71, any other
\* one waits for mnemonicToSeed.
NextLine ==
    /\ pc = "loop"
    /\ cursor < Len(input)
    /\ cursor' = cursor + 1
    /\ LET m == trim(input[cursor + 1]) IN
       /\ mnemonic' = m
       /\ IF m = <<>>
          THEN /\ EndIteration
               /\ UNCHANGED << deriving, calls, pending, issued, diag, derived >>
          ELSE /\ calls' = ValidationCalls(m)
               /\ UNCHANGED << processedLines, stdout >>
               /\ IF ValidationThrows(m)
                  THEN /\ derived' = derived \cup
                                { Outcome(m, "Invalid mnemonic", NoAddress, cursor + 1) }
                       /\ CatchBlock(m, "Invalid mnemonic", pending)
                       /\ UNCHANGED deriving
                  ELSE /\ deriving' = deriving + 1
                       /\ pc' = "seed"
                       /\ UNCHANGED << pending, issued, diag, derived >>
    /\ UNCHANGED << input, argsOk, outFile, prevOut, run, fatal, topCatch,
                    settled, sink, endCalls, totalLines, cnt >>

\* Line 56: the input cannot be read during the processing pass; the
\* iterator throws out of the loop and the handler's promise rejects.
LoopInputFails ==
    /\ pc = "loop"
    /\ Crash("inputProcess")
    /\ UNCHANGED << input, argsOk, outFile, prevOut, run, topCatch, settled,
                    sink, endCalls, totalLines, processedLines, cnt, cursor,
                    mnemonic, deriving, calls, pending, issued, diag, stdout,
                    derived >>

\* Lines 18-22, 60-63, 68-71: mnemonicToSeed resolves; the key pair is
\* derived and the address encoded and written, or the derivation throws
\* and the catch block runs.
SeedDone ==
    /\ pc = "seed"
    /\ deriving' = deriving - 1
    /\ calls' = calls \o DerivationCalls(mnemonic)
    /\ IF DerivationThrows(mnemonic)
       THEN /\ derived' = derived \cup
                     { Outcome(mnemonic, "Derivation failure", NoAddress, cursor) }
            /\ CatchBlock(mnemonic, "Derivation failure", pending)
       ELSE /\ derived' = derived \cup
                     { Outcome(mnemonic, "address", DerivedAddress(mnemonic), cursor) }
            /\ IssueWrite(SuccessRecord(mnemonic, DerivedAddress(mnemonic)), pending)
            /\ AwaitWrite("writeOk")
            /\ UNCHANGED diag
    /\ UNCHANGED << input, argsOk, outFile, prevOut, run, fatal, topCatch,
                    settled, sink, endCalls, totalLines, processedLines, cnt,
                    cursor, mnemonic, stdout >>

\* Lines 63-66 and 71-74 with err unset, then lines 79-83: the record is in
\* the file, the awaited promise resolves and the iteration ends.
WriteDone ==
    /\ pc \in {"writeOk", "writeErr"}
    /\ sink = "open"
    /\ pending # <<>>
    /\ outFile' = Append(outFile, Head(pending))
    /\ pending' = Tail(pending)
    /\ EndIteration
    /\ UNCHANGED << input, argsOk, prevOut, run, fatal, topCatch, settled,
                    sink, endCalls, totalLines, cnt, cursor, mnemonic,
                    deriving, calls, issued, diag, derived >>

\* Lines 63-64 with err set: the promise of line 62 rejects inside the try
\* of line 59, so the catch block of lines 68-75 runs.  A failed write
\* leaves the stream destroyed.
WriteOkFails ==
    /\ pc = "writeOk"
    /\ sink = "open"
    /\ pending # <<>>
    /\ sink' = "broken"
    /\ CatchBlock(mnemonic, "write failed", Tail(pending))
    /\ UNCHANGED << input, argsOk, outFile, prevOut, run, fatal, topCatch,
                    settled, endCalls, totalLines, processedLines, cnt, cursor,
                    mnemonic, deriving, calls, stdout, derived >>

\* Lines 71-72 with err set: the promise of line 70 rejects inside the catch
\* block; nothing encloses it, so the handler's promise rejects.
WriteErrFails ==
    /\ pc = "writeErr"
    /\ sink \in {"open", "broken"}
    /\ pending # <<>>
    /\ sink' = "broken"
    /\ pending' = Tail(pending)
    /\ Crash("write")
    /\ UNCHANGED << input, argsOk, outFile, prevOut, run, topCatch, settled,
                    endCalls, totalLines, processedLines, cnt, cursor,
                    mnemonic, deriving, calls, issued, diag, stdout, derived >>

\* The loop as it would be were lines 86-87 inside its body.
LoopRunning == TRUE

\* The for-await loop of line 56 ends when rl2 has no line left.
LoopExhausted == cursor = Len(input)

\* Lines 86-87: rl2 is exhausted; the sink is ended and the notice printed.
Finish ==
    /\ pc = "loop"
    /\ LoopExhausted
    /\ endCalls' = endCalls + 1
    /\ stdout' = Append(stdout, [ kind |-> "notice", percent |-> 0,
                                  processed |-> processedLines,
                                  total |-> totalLines ])
    /\ pc' = "done"
    /\ UNCHANGED << input, argsOk, outFile, prevOut, run, fatal, topCatch,
                    settled, sink, totalLines, processedLines, cnt, cursor,
                    mnemonic, deriving, calls, pending, issued, diag, derived >>

\* Line 98: the program is run again on the same two files.
NextRun ==
    /\ pc = "done"
    /\ sink = "open"
    /\ run < MaxRuns
    /\ run' = run + 1
    /\ prevOut' = outFile
    /\ pc' = "start"
    /\ topCatch' = 0
    /\ settled' = FALSE
    /\ sink' = "none"
    /\ endCalls' = 0
    /\ totalLines' = 0
    /\ processedLines' = 0
    /\ cnt' = 0
    /\ cursor' = 0
    /\ mnemonic' = <<>>
    /\ calls' = <<>>
    /\ issued' = <<>>
    /\ diag' = <<>>
    /\ stdout' = <<>>
    /\ UNCHANGED << input, argsOk, outFile, fatal, deriving, pending, derived >>

Next ==
    \/ Setup
    \/ SinkOpened
    \/ SinkOpenFails
    \/ CountLine
    \/ CountInputFails
    \/ CountClose
    \/ NextLine
    \/ LoopInputFails
    \/ SeedDone
    \/ WriteDone
    \/ WriteOkFails
    \/ WriteErrFails
    \/ Finish
    \/ NextRun

Spec == Init /\ [][Next]_vars

(***************************************************************************)
(* The same program on long inputs: files of up to MaxLongLines blank      *)
(* lines, with which the progress counters reach every total up to that    *)
(* bound.  The actions are those of Next that such an input can enable.    *)
(***************************************************************************)
LongInputs == { [i \in 1..n |-> <<>>] : n \in 0..MaxLongLines }

InitLong ==
    /\ input \in LongInputs
    /\ argsOk = TRUE
    /\ outFile = <<>>
    /\ prevOut = <<>>
    /\ run = 1
    /\ pc = "start"
    /\ fatal = "none"
    /\ topCatch = 0
    /\ settled = FALSE
    /\ sink = "none"
    /\ endCalls = 0
    /\ totalLines = 0
    /\ processedLines = 0
    /\ cnt = 0
    /\ cursor = 0
    /\ mnemonic = <<>>
    /\ deriving = 0
    /\ calls = <<>>
    /\ pending = <<>>
    /\ issued = <<>>
    /\ diag = <<>>
    /\ stdout = <<>>
    /\ derived = {}

NextLong ==
    \/ Setup
    \/ SinkOpened
    \/ SinkOpenFails
    \/ CountLine
    \/ CountInputFails
    \/ CountClose
    \/ NextLine
    \/ LoopInputFails
    \/ Finish

SpecLong == InitLong /\ [][NextLong]_vars

(***************************************************************************)
(* Vocabulary of the properties.                                           *)
(***************************************************************************)
IsBlankLine(l) == \A i \in 1..Len(l) : l[i] = SP

NotBlank(l) == ~IsBlankLine(l)

\* The non-blank lines L1..LN of the input, in order.
NonBlankLines == SelectSeq(input, NotBlank)

\* The number of non-blank lines among the first i lines of the input.
NonBlankRank(i) == Len(SelectSeq(SubSeq(input, 1, i), NotBlank))

\* t is l without its surrounding whitespace.
IsTrimmed(l, t) ==
    \E a \in 0..Len(l), b \in 0..Len(l) :
        /\ a <= b
        /\ t = SubSeq(l, a + 1, b)
        /\ \A i \in 1..a : l[i] = SP
        /\ \A i \in (b + 1)..Len(l) : l[i] = SP
        /\ t # <<>>
        /\ t[1] # SP
        /\ t[Len(t)] # SP

\* The write stream of this run has opened the output file.
Truncated == sink \in {"open", "broken"} /\ fatal # "sinkOpen"

\* The run has reached line 87 and its sink has been opened.
RunComplete == pc = "done" /\ sink = "open"

\* The failures of the input source and of the output sink.
ResourceFailures == {"sinkOpen", "inputCount", "inputProcess", "write"}

\* The outcomes deriveRippleAddress produced in the current run.
DerivedThisRun == { o \in derived : o.run = run }

\* purpose=44', coin=144', account=0', change=0, index=0
StandardPath ==
    << [index |-> 44, hardened |-> TRUE],
       [index |-> 144, hardened |-> TRUE],
       [index |-> 0, hardened |-> TRUE],
       [index |-> 0, hardened |-> FALSE],
       [index |-> 0, hardened |-> FALSE] >>

EmptyPassphraseSeed(m) == [mnemonic |-> m, passphrase |-> <<>>]

(***************************************************************************)
(* C1. Failure isolation: a failure of deriveRippleAddress on a non-blank  *)
(* line is caught at that line: exactly one write, of the record           *)
(* '<mnemonic>|Error deriving address', is issued for it; once the line is *)
(* done that record is the line's record in the output; a derivation       *)
(* failure is never what ends the process (only a failure of the input or  *)
(* of the sink is); and a completed run has processed every line and holds *)
(* one record per non-blank line.                                          *)
(***************************************************************************)
C1_FailureIsolation ==
    /\ pc = "crashed" => fatal \in ResourceFailures
    /\ pc = "writeErr" => pending = << ErrorRecord(mnemonic) >>
    /\ \A o \in DerivedThisRun :
          (o.kind # "address" /\ o.position <= processedLines) =>
              /\ Truncated
              /\ NonBlankRank(o.position) <= Len(outFile)
              /\ outFile[NonBlankRank(o.position)] = ErrorRecord(o.mnemonic)
    /\ RunComplete =>
          /\ processedLines = Len(input)
          /\ Len(outFile) = Len(NonBlankLines)

\* A completed run whose first line failed to derive and whose second line
\* got its record after it.
C1_Witness ==
    /\ RunComplete
    /\ Len(outFile) = 2
    /\ \E o \in DerivedThisRun : o.kind # "address" /\ o.position = 1

(***************************************************************************)
(* C2. Order preservation and record count: once the sink has opened the   *)
(* file, the output holds records for a prefix of the non-blank lines      *)
(* L1..LN, in order, the i-th record's mnemonic field being Li without its *)
(* surrounding whitespace; when the run completes there are exactly N      *)
(* records; blank lines contribute none.                                   *)
(***************************************************************************)
C2_OrderAndCount ==
    Truncated =>
        /\ Len(outFile) <= Len(NonBlankLines)
        /\ \A k \in 1..Len(outFile) :
              IsTrimmed(NonBlankLines[k], outFile[k].mnemonic)
        /\ RunComplete => Len(outFile) = Len(NonBlankLines)

\* A completed run over a blank line and a padded mnemonic.
C2_Witness ==
    /\ RunComplete
    /\ Len(outFile) >= 1
    /\ Len(outFile) < Len(input)
    /\ \E i \in 1..Len(input) :
          NotBlank(input[i]) /\ input[i] # outFile[NonBlankRank(i)].mnemonic

(***************************************************************************)
(* C3. Error records only for failed derivations: every write of a record  *)
(* carrying 'Error deriving address' is for a line on which                *)
(* deriveRippleAddress failed, and every processed line whose derivation   *)
(* succeeded has the record '<mnemonic>|<address>' in the output.          *)
(***************************************************************************)
C3_ErrorRecordOnlyOnDerivationFailure ==
    /\ \A k \in 1..Len(issued) :
          issued[k].marker = ErrorMarker =>
              \E o \in DerivedThisRun :
                  o.mnemonic = issued[k].mnemonic /\ o.kind # "address"
    /\ \A o \in DerivedThisRun :
          (o.kind = "address" /\ o.position <= processedLines) =>
              /\ NonBlankRank(o.position) <= Len(outFile)
              /\ outFile[NonBlankRank(o.position)]
                     = SuccessRecord(o.mnemonic, o.address)

(***************************************************************************)
(* C4. Validation gate: for a mnemonic that fails validation the only      *)
(* library call deriveRippleAddress makes is validateMnemonic, the call is *)
(* never suspended on seed expansion, and its outcome is 'Invalid          *)
(* mnemonic'.                                                              *)
(***************************************************************************)
C4_ValidationGate ==
    /\ (mnemonic # <<>> /\ ~validateMnemonic(mnemonic)) =>
          /\ pc # "seed"
          /\ deriving = 0
          /\ Len(calls) = 1
          /\ calls[1].fn = "validateMnemonic"
    /\ \A o \in derived :
          ~validateMnemonic(o.mnemonic) =>
              o.kind = "Invalid mnemonic" /\ o.address = NoAddress

\* The error record of a line that failed validation is being written.
C4_Witness ==
    /\ pc = "writeErr"
    /\ sink = "open"
    /\ ~validateMnemonic(mnemonic)
    /\ \E o \in DerivedThisRun : o.mnemonic = mnemonic

(***************************************************************************)
(* C5. Fixed derivation pipeline: for a valid mnemonic m the calls are, in *)
(* order, validateMnemonic, mnemonicToSeed of m with the empty passphrase, *)
(* fromSeedBuffer of that seed, derivePath at 44'/144'/0'/0/0, and         *)
(* deriveAddress of the public key; every address returned encodes the     *)
(* public key of that path of that seed.                                   *)
(***************************************************************************)
C5_FixedPipeline ==
    /\ (mnemonic # <<>> /\ validateMnemonic(mnemonic)) =>
          /\ calls[1].fn = "validateMnemonic"
          /\ deriving = 1 => Len(calls) = 1
          /\ deriving = 0 =>
                /\ Len(calls) \in {4, 5}
                /\ calls[2] = Call("mnemonicToSeed",
                                   EmptyPassphraseSeed(mnemonic), <<>>, "")
                /\ calls[3] = Call("fromSeedBuffer",
                                   EmptyPassphraseSeed(mnemonic), <<>>, "")
                /\ calls[4] = Call("derivePath",
                                   EmptyPassphraseSeed(mnemonic), StandardPath, "")
                /\ Len(calls) = 5 =>
                      calls[5] = Call("deriveAddress",
                                      EmptyPassphraseSeed(mnemonic),
                                      StandardPath, "public")
                /\ pc = "writeOk" => Len(calls) = 5
    /\ \A o \in derived :
          o.kind = "address" =>
              o.address.encodes = [ kind |-> "public",
                                    seed |-> EmptyPassphraseSeed(o.mnemonic),
                                    path |-> StandardPath ]

\* The second line of the batch has been derived and its record is being
\* written.
C5_Witness ==
    /\ pc = "writeOk"
    /\ cursor = 2
    /\ Len(calls) = 5

C7_ResourceErrorAtTopLevel ==
    pc = "crashed" =>
        /\ fatal \in ResourceFailures
        /\ topCatch = 1
        /\ Cardinality({ k \in 1..Len(diag) :
                            diag[k].msg = "Error processing mnemonics:" }) = 1

(***************************************************************************)
(* C8. Idempotent output: a run completed after a completed run over the   *)
(* same input and output leaves the output as the earlier run left it, and *)
(* no completed run keeps anything the output held before it.              *)
(***************************************************************************)
C8_IdempotentOutput ==
    RunComplete =>
        /\ run > 1 => outFile = prevOut
        /\ \A k \in 1..Len(outFile) : outFile[k] # StaleRecord

\* A second run has completed and the output holds records.
C8_Witness ==
    /\ RunComplete
    /\ run = 2
    /\ Len(outFile) = 2

(***************************************************************************)
(* C9. No private material leaves a derivation call: every record written  *)
(* to the sink is the line's mnemonic followed by the error marker or by   *)
(* an address encoding a public key; the only key handed to deriveAddress  *)
(* is the public key; the diagnostic channel carries the mnemonic and the  *)
(* error only, the progress channel numbers only.                          *)
(***************************************************************************)
C9_NoPrivateMaterial ==
    /\ \A k \in 1..Len(issued) :
          /\ \E i \in 1..Len(input) : IsTrimmed(input[i], issued[k].mnemonic)
          /\ \/ issued[k] = ErrorRecord(issued[k].mnemonic)
             \/ /\ issued[k].marker = ""
                /\ issued[k].address.encodes.kind = "public"
    /\ \A k \in 1..Len(calls) :
          calls[k].fn = "deriveAddress" => calls[k].key = "public"
    /\ \A k \in 1..Len(diag) :
          /\ DOMAIN diag[k] = {"msg", "mnemonic", "err"}
          /\ diag[k].err \in { "Invalid mnemonic", "Derivation failure",
                               "write failed", "ERR_INVALID_ARG_TYPE" }
    /\ \A k \in 1..Len(stdout) :
          DOMAIN stdout[k] = {"kind", "percent", "processed", "total"}

\* A success record has been written to the output.
C9_Witness ==
    /\ outFile # <<>>
    /\ Truncated
    /\ outFile[1].marker = ""

(***************************************************************************)
(* C10. Strict sequencing: at most one line is in flight; there is never   *)
(* more than one derivation in progress nor more than one write            *)
(* outstanding, never both at once, and a line is taken from the input     *)
(* only when every earlier line has ended its iteration.                   *)
(***************************************************************************)
C10_StrictSequencing ==
    /\ deriving \in {0, 1}
    /\ Len(pending) <= 1
    /\ deriving = 1 => pending = <<>> /\ pc \in {"seed", "crashed"}
    /\ pc = "seed" => deriving = 1
    /\ cursor <= processedLines + 1
    /\ (pending # <<>> \/ deriving = 1) => cursor = processedLines + 1
    /\ pc = "loop" => pending = <<>> /\ cursor = processedLines

\* The write of the second line's record is outstanding.
C10_Witness ==
    /\ pc = "writeOk"
    /\ cursor = 2
    /\ Len(pending) = 1
    /\ sink = "open"

(***************************************************************************)
(* C11. Two-pass ordering: while rl counts, nothing is derived, written or *)
(* reported; and as soon as a line has been taken by the processing pass,  *)
(* a derivation made, a record written or a progress update printed, rl    *)
(* has read the whole input and totalLines is the number of all its lines, *)
(* blank ones included, which it stays for the rest of the run.            *)
(***************************************************************************)
C11_TwoPassOrdering ==
    /\ pc = "counting" =>
          /\ DerivedThisRun = {}
          /\ deriving = 0
          /\ issued = <<>>
          /\ pending = <<>>
          /\ stdout = <<>>
          /\ cursor = 0
          /\ processedLines = 0
    /\ ( \/ DerivedThisRun # {}
         \/ deriving > 0
         \/ issued # <<>>
         \/ stdout # <<>>
         \/ cursor > 0
         \/ pc \in {"loop", "seed", "writeOk", "writeErr", "done"} ) =>
          /\ cnt = Len(input)
          /\ totalLines = Len(input)

\* The second of three lines is being derived, the first one being blank.
C11_Witness ==
    /\ pc = "seed"
    /\ cursor = 2
    /\ Len(input) = 3
    /\ IsBlankLine(input[1])
    /\ Len(stdout) = 1

(***************************************************************************)
(* C12. Progress counters: processedLines grows by one per line of the     *)
(* processing pass, blank or not, once the line's write has completed;     *)
(* 0 <= processedLines <= totalLines always; every progress update reports *)
(* percent = floor(processed * 100 / total), within 0..100; and the last   *)
(* update of a completed run over a non-empty input reports processed =    *)
(* total and 100.                                                          *)
(***************************************************************************)
C12_ProgressCounters ==
    /\ 0 <= processedLines
    /\ processedLines <= totalLines
    /\ processedLines <= cursor
    /\ cursor <= processedLines + 1
    /\ pc = "loop" => processedLines = cursor
    /\ pending # <<>> => processedLines = cursor - 1
    /\ \A k \in 1..Len(stdout) :
          stdout[k].kind = "progress" =>
              /\ k <= processedLines
              /\ stdout[k].processed = k
              /\ stdout[k].total = Len(input)
              /\ stdout[k].percent \in 0..100
              /\ stdout[k].percent = (k * 100) \div Len(input)
    /\ (pc = "done" /\ Len(input) > 0) =>
          /\ Len(stdout) = Len(input) + 1
          /\ stdout[Len(input)].processed = totalLines
          /\ stdout[Len(input)].percent = 100

(***************************************************************************)
(* C13. Sink lifecycle: within a run the write stream is created once and  *)
(* opens the file, truncating it, at most once; the file changes only by   *)
(* that truncation and by the records the processing loop appends;         *)
(* writeStream.end() is called at most once, and only when the loop has    *)
(* taken every line and no write is outstanding; nothing is written after  *)
(* it; and the completion notice is printed exactly when end() has been    *)
(* called, as the last thing on stdout.                                    *)
(***************************************************************************)
C13_SinkLifecycle ==
    /\ [] /\ endCalls \in {0, 1}
          /\ endCalls = 1 =>
                /\ pc \in {"done", "crashed"}
                /\ cursor = Len(input)
                /\ processedLines = Len(input)
                /\ pending = <<>>
                /\ Truncated => Len(outFile) = Len(NonBlankLines)
          /\ \A k \in 1..Len(stdout) :
                stdout[k].kind = "notice" => endCalls = 1 /\ k = Len(stdout)
          /\ endCalls = 1 => stdout[Len(stdout)].kind = "notice"
    /\ [][ /\ sink' # sink =>
                << sink, sink' >> \in { << "none", "opening" >>,
                                        << "opening", "open" >>,
                                        << "opening", "broken" >>,
                                        << "open", "broken" >>,
                                        << "open", "none" >> }
           /\ sink' = "opening" => (sink = "opening" \/ pc = "start")
           /\ outFile' # outFile =>
                \/ sink = "opening" /\ sink' = "open" /\ outFile' = <<>>
                \/ /\ pc \in {"writeOk", "writeErr"}
                   /\ pending # <<>>
                   /\ endCalls = 0
                   /\ outFile' = Append(outFile, pending[1])
           /\ (endCalls = 1 /\ endCalls' = 1) =>
                issued' = issued /\ pending' = pending
         ]_vars

\* A run over three mnemonics has ended its sink and printed the notice.
C13_Witness ==
    /\ RunComplete
    /\ endCalls = 1
    /\ Len(outFile) = 3
    /\ stdout[Len(stdout)].kind = "notice"

(***************************************************************************)
(* C14. Sink release on fatal error: whenever the process has died of a    *)
(* failure outside the per-line boundary, the write stream is not left     *)
(* open: it has been ended, or it never opened, or it was destroyed.       *)
(***************************************************************************)
C14_SinkReleasedOnFatalError ==
    pc = "crashed" => (endCalls = 1 \/ sink \notin {"opening", "open"})

(***************************************************************************)
(* C15. Completion of run: the promise deriveAddressesFromFile returns is  *)
(* settled only when the run is over: the set-up failed, the process died, *)
(* or the loop has handled every line and the sink has been ended.         *)
(***************************************************************************)
C15_SettlesWhenRunIsOver ==
    settled =>
        \/ pc \in {"returned", "crashed"}
        \/ /\ pc = "done"
           /\ endCalls = 1
           /\ processedLines = Len(input)

(***************************************************************************)
(* C16. Empty and all-blank inputs: with no input line, totalLines stays   *)
(* 0, nothing is derived or written, no percent is computed, the loop ends *)
(* at once into lines 86-87 and the run completes with an empty output and *)
(* the notice alone on stdout; with blank lines only, nothing is derived   *)
(* or written either and the completed run has an empty output and a last  *)
(* progress update with processed = total.                                 *)
(***************************************************************************)
C16_EmptyAndBlankInputs ==
    /\ (argsOk /\ Len(input) = 0) =>
          /\ totalLines = 0
          /\ processedLines = 0
          /\ derived = {}
          /\ deriving = 0
          /\ issued = <<>>
          /\ \A k \in 1..Len(stdout) : stdout[k].kind # "progress"
          /\ pc = "counting" => ENABLED CountClose
          /\ pc = "loop" => ENABLED Finish
          /\ pc = "done" => endCalls = 1 /\ Len(stdout) = 1
          /\ RunComplete => outFile = <<>>
    /\ (argsOk /\ \A i \in 1..Len(input) : IsBlankLine(input[i])) =>
          /\ derived = {}
          /\ deriving = 0
          /\ issued = <<>>
          /\ (pc = "loop" /\ cursor = Len(input)) => ENABLED Finish
          /\ pc = "done" =>
                /\ endCalls = 1
                /\ processedLines = totalLines
                /\ totalLines = Len(input)
                /\ Len(input) > 0 =>
                      /\ stdout[Len(input)].kind = "progress"
                      /\ stdout[Len(input)].processed = stdout[Len(input)].total
          /\ RunComplete => outFile = <<>>

\* A run over three blank lines, one of them whitespace only, has completed.
C16_Witness ==
    /\ RunComplete
    /\ Len(input) = 3
    /\ \A i \in 1..Len(input) : IsBlankLine(input[i])
    /\ \E i \in 1..Len(input) : input[i] # <<>>
    /\ Len(stdout) = 4

====
